---- MODULE Spec2Model ----
(***************************************************************************)
(* A model of the two augmentors of audio_augmentor:                       *)
(*   AdversarialNoiseAugmentor (adversarial.py)  -- specification Spec     *)
(*   SpeedAugmentor            (speed.py)        -- specification SpecSpeed*)
(* Each augmentor instance is used on its own by an external caller, so    *)
(* each specification drives one instance and leaves the other's           *)
(* variables untouched.                                                    *)
(***************************************************************************)
EXTENDS Integers, Sequences, FiniteSets, TLC

VARIABLES
    \* ---- AdversarialNoiseAugmentor instance ----
    phase,            \* "new" (before __init__), "ready", "failed" (__init__ raised)
    config,           \* the config mapping handed to __init__
    y_true,           \* the y_true argument of __init__ (None or a label)
    error,            \* the exception __init__ raised, NoError if none
    events,           \* calls made by __init__, in program order
    artmodel,         \* self.artmodel
    adv_class,        \* self.adv_class
    data,             \* self.data   (set by the base loader)
    sr,               \* self.sr     (set by the base loader)
    augmented_audio,  \* self.augmented_audio
    adv_res,          \* the list adv_res built by the last transform
    last_call,        \* the last method called on the instance and how it ended
    \* ---- SpeedAugmentor instance ----
    speed,            \* the instance: phase, config, speed_factor, audio_data, ...
    rng,              \* the random module: the value random() yields, draws made
    speed_call        \* the last method called on the instance and how it ended

adv_vars == <<phase, config, y_true, error, events, artmodel, adv_class, data,
              sr, augmented_audio, adv_res, last_call>>
speed_vars == <<speed, rng, speed_call>>
vars == <<adv_vars, speed_vars>>

\* Python's None; every modelled object is a record with a kind field.
None == [kind |-> "None"]

-----------------------------------------------------------------------------
\* Bounds of the model.

\* longest audio (in samples) the loader hands back
MaxAudioLen == 5
\* the adapter's input window, in samples (scaled down)
ChunkSize == 2
\* random() yields k / RandDen for k in 0 .. RandDen-1
RandDen == 4

-----------------------------------------------------------------------------
\* adversarial.py: module level

SUPPORTED_CM == {"rawnet2", "btse", "aasistssl", "lcnn"}

SUPPORTED_ADV == {"ProjectedGradientDescent", "FastGradientMethod",
                  "AutoProjectedGradientDescent"}

\* The names bound at module level, which globals() maps to objects.
Globals == {"BaseAugmentor", "ArtRawnet2", "ArtBTSE", "ArtAasistSSL", "ArtLCNN",
            "librosa_to_pydub", "ProjectedGradientDescent", "FastGradientMethod",
            "AutoProjectedGradientDescent", "np", "SUPPORTED_CM", "SUPPORTED_ADV",
            "logging", "logger", "AdversarialNoiseAugmentor"}

\* The configuration keys the class docstring documents.
DocumentedKeys == {"model_name", "model_pretrained", "config_path", "device",
                   "adv_method", "adv_config"}

\* ---- inputs ----
ModelNames == SUPPORTED_CM \cup {"resnet"}
AdvMethods == SUPPORTED_ADV \cup {"CarliniL2Method", "ArtLCNN"}
KeySets == {DocumentedKeys, DocumentedKeys \cup {"ssl_model"}}
Labels == {[kind |-> "label", value |-> v] : v \in {0, 1}}

\* The mapping with the given keys; only model_name and adv_method vary.
MakeConfig(keys, model_name, adv_method) ==
    [k \in keys |->
        CASE k = "model_name" -> model_name
          [] k = "adv_method" -> adv_method
          [] k = "model_pretrained" -> "pretrained.pth"
          [] k = "config_path" -> "model.yaml"
          [] k = "ssl_model" -> "xlsr.pt"
          [] k = "device" -> "cpu"
          [] k = "adv_config" -> "eps"]

Configs ==
    {MakeConfig(keys, m, a) : keys \in KeySets, m \in ModelNames, a \in AdvMethods}

NoError == [kind |-> "NoError"]
Raise(type, msg) == [kind |-> "Exception", type |-> type, msg |-> msg]

\* config[key]: the value, or KeyError when the mapping has no such key.
HasKey(cfg, key) == key \in DOMAIN cfg


-----------------------------------------------------------------------------
\* The classifier adapters (artmodel package) and the conversion helper.

\* ArtRawnet2(config_path=..., device=...) and its siblings: a fresh adapter,
\* no weights loaded yet.
NewAdapter(cls, arg_name, arg_value, device) ==
    [kind |-> "adapter", cls |-> cls, arg_name |-> arg_name,
     arg_value |-> arg_value, device |-> device, weights |-> "unloaded"]

\* adapter.load_model(path)
LoadModel(adapter, path) == [adapter EXCEPT !.weights = path]

\* adapter.get_art(): the attack-compatible handle of the adapter.
GetArt(adapter) ==
    [kind |-> "art_classifier", cls |-> adapter.cls, weights |-> adapter.weights]

\* The samples of chunk j of waveform x, zero-padded to the window.
ChunkRow(x, j) ==
    [i \in 1..ChunkSize |->
        IF (j - 1) * ChunkSize + i <= Len(x.samples)
        THEN x.samples[(j - 1) * ChunkSize + i] ELSE 0]

\* adapter.get_chunk(data): fixed-size windows, each a batch of one row, and
\* the length of the trailing window before padding.
GetChunk(x) ==
    LET k == (Len(x.samples) + ChunkSize - 1) \div ChunkSize
    IN  [chunks |-> [j \in 1..k |-> <<ChunkRow(x, j)>>],
         last_size |-> IF k = 0 THEN 0 ELSE Len(x.samples) - (k - 1) * ChunkSize]

RECURSIVE Concatenate(_)
Concatenate(rows) ==
    IF rows = <<>> THEN <<>> ELSE Head(rows) \o Concatenate(Tail(rows))

\* adapter.chunk_to_audio(rows, last_size): the rows joined, the last one cut
\* back to last_size samples.
ChunkToAudio(rows, last_size) ==
    [kind |-> "ndarray",
     samples |-> IF rows = <<>> THEN <<>>
                 ELSE Concatenate(SubSeq(rows, 1, Len(rows) - 1))
                      \o SubSeq(rows[Len(rows)], 1, last_size)]

\* utils.librosa_to_pydub(audio, sr)
LibrosaToPydub(audio, rate) ==
    [kind |-> "AudioSegment", samples |-> audio.samples, frame_rate |-> rate]

\* ART's attack.generate(x, y): a batch of the shape of x; every sample is
\* perturbed, and carries the label the perturbation was conditioned on
\* (None for the call without y).
Generate(attack, x, y) ==
    [b \in 1..Len(x) |->
        [i \in 1..Len(x[b]) |-> [kind |-> "adv", src |-> x[b][i], y |-> y]]]

-----------------------------------------------------------------------------
\* AdversarialNoiseAugmentor.__init__

\* The running constructor: what it has raised, called and assigned so far.
CtorStart ==
    [error |-> NoError, events |-> <<>>, artmodel |-> None, adv_class |-> None]

ModelNameMsg == "model_name must be one of SUPPORTED_CM"
AdvMethodMsg == "adv_method must be one of SUPPORTED_ADV"

\* Mutant: the model_name assertion is gone.
AssertModelName_Dropped(c, cfg) ==
    IF c.error # NoError THEN c
    ELSE [c EXCEPT !.events = Append(@, <<"assert_model_name">>)]

\* assert self.model_name in SUPPORTED_CM
AssertModelName(c, cfg) ==
    IF c.error # NoError THEN c
    ELSE IF cfg.model_name \in SUPPORTED_CM
         THEN [c EXCEPT !.events = Append(@, <<"assert_model_name">>)]
         ELSE [c EXCEPT !.events = Append(@, <<"assert_model_name">>),
                        !.error = Raise("AssertionError", ModelNameMsg)]

\* if self.model_name == name: self.artmodel = cls(key=config[key], device);
\*                             self.artmodel.load_model(self.model_pretrained)
AdapterBranch(c, cfg, name, cls, key) ==
    IF c.error # NoError \/ cfg.model_name # name THEN c
    ELSE IF ~HasKey(cfg, key) THEN [c EXCEPT !.error = Raise("KeyError", key)]
    ELSE [c EXCEPT
            !.artmodel = LoadModel(NewAdapter(cls, key, cfg[key], cfg.device),
                                   cfg.model_pretrained),
            !.events = @ \o << <<"new", cls>>,
                               <<"load_model", cls, cfg.model_pretrained>> >>]

IfRawnet2(c, cfg) == AdapterBranch(c, cfg, "rawnet2", "ArtRawnet2", "config_path")
IfBtse(c, cfg) == AdapterBranch(c, cfg, "btse", "ArtBTSE", "config_path")
IfAasistSSL(c, cfg) == AdapterBranch(c, cfg, "aasistssl", "ArtAasistSSL", "ssl_model")
IfLcnn(c, cfg) == AdapterBranch(c, cfg, "lcnn", "ArtLCNN", "config_path")

\* assert self.adv_method in SUPPORTED_ADV
AssertAdvMethod(c, cfg) ==
    IF c.error # NoError THEN c
    ELSE IF cfg.adv_method \in SUPPORTED_ADV
         THEN [c EXCEPT !.events = Append(@, <<"assert_adv_method">>)]
         ELSE [c EXCEPT !.events = Append(@, <<"assert_adv_method">>),
                        !.error = Raise("AssertionError", AdvMethodMsg)]

\* self.adv_class = globals()[self.adv_method](self.artmodel.get_art(),
\*                                             **config["adv_config"])
NewAttack(c, cfg) ==
    IF c.error # NoError THEN c
    ELSE LET looked == [c EXCEPT !.events = Append(@, <<"globals", cfg.adv_method>>)]
         IN  IF cfg.adv_method \notin Globals
             THEN [looked EXCEPT !.error = Raise("KeyError", cfg.adv_method)]
             ELSE IF c.artmodel = None
             THEN [looked EXCEPT !.error = Raise("AttributeError", "artmodel")]
             ELSE [looked EXCEPT
                    !.adv_class = [kind |-> "attack", cls |-> cfg.adv_method,
                                   estimator |-> GetArt(c.artmodel),
                                   params |-> cfg.adv_config],
                    !.events = Append(@, <<"attack", cfg.adv_method>>)]

\* Mutant: both assertions moved ahead of the adapter branches.
Ctor_ChecksFirst(cfg) ==
    NewAttack(
      IfLcnn(IfAasistSSL(IfBtse(IfRawnet2(
        AssertAdvMethod(AssertModelName(CtorStart, cfg), cfg),
        cfg), cfg), cfg), cfg),
      cfg)

\* The constructor body, statement after statement.
Ctor(cfg) ==
    NewAttack(
      AssertAdvMethod(
        IfLcnn(IfAasistSSL(IfBtse(IfRawnet2(
          AssertModelName(CtorStart, cfg), cfg), cfg), cfg), cfg),
        cfg),
      cfg)

Call(op, args, result) == [op |-> op, args |-> args, result |-> result]

Construct ==
    /\ phase = "new"
    /\ LET c == Ctor(config)
       IN  /\ phase' = IF c.error = NoError THEN "ready" ELSE "failed"
           /\ error' = c.error
           /\ events' = c.events
           /\ artmodel' = c.artmodel
           /\ adv_class' = c.adv_class
           /\ last_call' = Call("__init__", <<>>,
                                IF c.error = NoError THEN "ok" ELSE c.error.type)
    /\ UNCHANGED <<config, y_true, data, sr, augmented_audio, adv_res, speed_vars>>

-----------------------------------------------------------------------------
\* AdversarialNoiseAugmentor: load (inherited), transform, transform_load

\* A waveform of n samples; sample i is named i, and 0 is the padding value.
Waveform(n) == [kind |-> "ndarray", samples |-> [i \in 1..n |-> i]]
SampleRates == {16000, 22050}

\* BaseAugmentor.load: reads the audio file into self.data and self.sr.
Load(n, rate) ==
    /\ phase = "ready"
    /\ data' = Waveform(n)
    /\ sr' = rate
    /\ last_call' = Call("load", <<>>, "ok")
    /\ UNCHANGED <<phase, config, y_true, error, events, artmodel, adv_class,
                   augmented_audio, adv_res, speed_vars>>

\* The body of "for chunk in chunks": the value appended to adv_res.
\* temp is assigned under the if, and assigned again by the next statement.
LoopBody(attack, chunk, y) ==
    LET temp1 == IF y # None THEN Generate(attack, chunk, y)[1] ELSE None
        temp2 == Generate(attack, chunk, None)[1]
    IN  temp2

\* Mutant: adv_res.append(temp) dedented out of the loop.
ChunkLoop_AppendAfterLoop(attack, chunks, y, res) ==
    IF chunks = <<>> THEN res
    ELSE Append(res, LoopBody(attack, chunks[Len(chunks)], y))

\* for chunk in chunks: ...; adv_res.append(temp)
RECURSIVE ChunkLoop(_, _, _, _)
ChunkLoop(attack, chunks, y, res) ==
    IF chunks = <<>> THEN res
    ELSE ChunkLoop(attack, Tail(chunks), y,
                   Append(res, LoopBody(attack, Head(chunks), y)))

Transform ==
    /\ phase = "ready"
    /\ IF data = None
       THEN \* nothing was loaded: get_chunk has no audio to split and raises
            /\ last_call' = Call("transform", <<>>, "Error")
            /\ UNCHANGED <<augmented_audio, adv_res>>
       ELSE LET got == GetChunk(data)
                res == ChunkLoop(adv_class, got.chunks, y_true, <<>>)
                audio == ChunkToAudio(res, got.last_size)
            IN  /\ adv_res' = res
                /\ augmented_audio' = LibrosaToPydub(audio, sr)
                /\ last_call' = Call("transform", <<>>, "ok")
    /\ UNCHANGED <<phase, config, y_true, error, events, artmodel, adv_class,
                   data, sr, speed_vars>>

InputDirs == {"train", "dev"}
BatchSizes == {0, 8}

\* Mutant: the stub returns instead of raising.
TransformLoad_Returns(input_dir, batch_size) ==
    /\ phase = "ready"
    /\ last_call' = Call("transform_load", <<input_dir, batch_size>>, "ok")
    /\ UNCHANGED <<phase, config, y_true, error, events, artmodel, adv_class,
                   data, sr, augmented_audio, adv_res, speed_vars>>

\* raise NotImplementedError
TransformLoad(input_dir, batch_size) ==
    /\ phase = "ready"
    /\ last_call' = Call("transform_load", <<input_dir, batch_size>>,
                         "NotImplementedError")
    /\ UNCHANGED <<phase, config, y_true, error, events, artmodel, adv_class,
                   data, sr, augmented_audio, adv_res, speed_vars>>

-----------------------------------------------------------------------------
\* SpeedAugmentor

\* The configured bounds, in tenths.
SpeedFactors == {5, 9, 10, 15}
SpeedConfigs == [min_speed_factor : SpeedFactors, max_speed_factor : SpeedFactors]

\* random.uniform(a, b) == a + (b - a) * random(), random() being k / RandDen.
Uniform(a, b, k) == a + ((b - a) * k) \div RandDen

NoSpeed ==
    [phase |-> "new", config |-> None, speed_factor |-> None, audio_data |-> None,
     data |-> None, sr |-> None, augmented_audio |-> None]

SpeedConstruct ==
    /\ speed.phase = "new"
    /\ speed' = [speed EXCEPT
                    !.phase = "ready",
                    !.speed_factor = Uniform(speed.config.min_speed_factor,
                                             speed.config.max_speed_factor,
                                             rng.value),
                    !.audio_data = None]
    /\ rng' \in [value : 0..(RandDen - 1), draws : {rng.draws + 1}]
    /\ speed_call' = Call("__init__", <<>>, "ok")
    /\ UNCHANGED adv_vars

\* Mutant: the segment is converted only while audio_data is still None.
SpeedLoad_KeepsSegment(n, rate, ok) ==
    /\ speed.phase = "ready"
    /\ IF ok
       THEN /\ speed' = [speed EXCEPT
                            !.data = Waveform(n),
                            !.sr = rate,
                            !.audio_data =
                                IF @ = None
                                THEN LibrosaToPydub(Waveform(n), rate) ELSE @]
            /\ speed_call' = Call("load", <<>>, "ok")
       ELSE /\ speed_call' = Call("load", <<>>, "IOError")
            /\ UNCHANGED speed
    /\ UNCHANGED <<rng, adv_vars>>

\* super().load(); self.audio_data = librosa_to_pydub(self.data, sr=self.sr)
\* The base loader raises (ok = FALSE) when the file cannot be read.
SpeedLoad(n, rate, ok) ==
    /\ speed.phase = "ready"
    /\ IF ok
       THEN /\ speed' = [speed EXCEPT
                            !.data = Waveform(n),
                            !.sr = rate,
                            !.audio_data = LibrosaToPydub(Waveform(n), rate)]
            /\ speed_call' = Call("load", <<>>, "ok")
       ELSE /\ speed_call' = Call("load", <<>>, "IOError")
            /\ UNCHANGED speed
    /\ UNCHANGED <<rng, adv_vars>>

\* pydub's AudioSegment.speedup(playback_speed)
Speedup(segment, playback_speed) ==
    [kind |-> "AudioSegment", speedup_of |-> segment,
     playback_speed |-> playback_speed]

\* Mutant: the factor is drawn again by every transform.
SpeedTransform_Resamples ==
    /\ speed.phase = "ready"
    /\ speed.audio_data # None
    /\ LET factor == Uniform(speed.config.min_speed_factor,
                             speed.config.max_speed_factor, rng.value)
       IN  speed' = [speed EXCEPT
                        !.speed_factor = factor,
                        !.augmented_audio = Speedup(speed.audio_data, factor)]
    /\ rng' \in [value : 0..(RandDen - 1), draws : {rng.draws + 1}]
    /\ speed_call' = Call("transform", <<>>, "ok")
    /\ UNCHANGED adv_vars

\* self.augmented_audio = self.audio_data.speedup(self.speed_factor)
SpeedTransform ==
    /\ speed.phase = "ready"
    /\ IF speed.audio_data = None
       THEN \* None has no attribute speedup
            /\ speed_call' = Call("transform", <<>>, "AttributeError")
            /\ UNCHANGED speed
       ELSE /\ speed' = [speed EXCEPT
                            !.augmented_audio =
                                Speedup(speed.audio_data, speed.speed_factor)]
            /\ speed_call' = Call("transform", <<>>, "ok")
    /\ UNCHANGED <<rng, adv_vars>>

-----------------------------------------------------------------------------
\* The two specifications.

NoCall == Call("none", <<>>, "ok")

AdvIdle ==
    /\ phase = "new" /\ error = NoError /\ events = <<>>
    /\ artmodel = None /\ adv_class = None
    /\ data = None /\ sr = None /\ augmented_audio = None
    /\ adv_res = <<>> /\ last_call = NoCall

SpeedIdle ==
    /\ speed = NoSpeed
    /\ rng = [value |-> 0, draws |-> 0]
    /\ speed_call = NoCall

\* An AdversarialNoiseAugmentor about to be constructed from any
\* configuration and any y_true.
Init ==
    /\ AdvIdle
    /\ config \in Configs
    /\ y_true \in {None} \cup Labels
    /\ SpeedIdle

Next ==
    \/ Construct
    \/ \E n \in 1..MaxAudioLen, rate \in SampleRates : Load(n, rate)
    \/ Transform
    \/ \E input_dir \in InputDirs, batch_size \in BatchSizes :
            TransformLoad(input_dir, batch_size)

Spec == Init /\ [][Next]_vars

\* A SpeedAugmentor about to be constructed from any bounds, with any value
\* about to come out of random().
InitSpeed ==
    /\ AdvIdle
    /\ config = None
    /\ y_true = None
    /\ speed \in {[NoSpeed EXCEPT !.config = c] : c \in SpeedConfigs}
    /\ rng \in [value : 0..(RandDen - 1), draws : {0}]
    /\ speed_call = NoCall

NextSpeed ==
    \/ SpeedConstruct
    \/ \E n \in 1..MaxAudioLen, rate \in SampleRates, ok \in BOOLEAN :
            SpeedLoad(n, rate, ok)
    \/ SpeedTransform

SpecSpeed == InitSpeed /\ [][NextSpeed]_vars

-----------------------------------------------------------------------------
\* Claims about AdversarialNoiseAugmentor (checked under Spec).

\* Whether __init__ made a call of one of the given kinds.
Called(kinds) == \E i \in 1..Len(events) : events[i][1] \in kinds

\* Position of the first call of the given kind, 0 if there is none.
FirstCall(kind) ==
    IF Called({kind})
    THEN CHOOSE i \in 1..Len(events) :
            /\ events[i][1] = kind
            /\ \A j \in 1..(i - 1) : events[j][1] # kind
    ELSE 0

\* C1: a configuration whose model_name is not supported makes __init__ fail
\* with the model_name assertion error, whatever the other options are, and
\* neither a classifier adapter nor an attack object is created.
C1_UnsupportedModelNameFails ==
    (phase # "new" /\ config.model_name \notin SUPPORTED_CM) =>
        /\ phase = "failed"
        /\ error = Raise("AssertionError", ModelNameMsg)
        /\ artmodel = None
        /\ adv_class = None
        /\ ~Called({"new", "load_model", "globals", "attack"})

C1_Witness ==
    /\ phase = "failed"
    /\ config.model_name \notin SUPPORTED_CM
    /\ config.adv_method \in SUPPORTED_ADV
    /\ "ssl_model" \in DOMAIN config

\* C2 (as claimed): a configuration whose adv_method is not supported makes
\* __init__ fail with an assertion error, no attack object is created and
\* the name-to-class lookup is never reached.
C2_UnsupportedAdvMethodAsserts ==
    (phase # "new" /\ config.adv_method \notin SUPPORTED_ADV) =>
        /\ phase = "failed"
        /\ error.type = "AssertionError"
        /\ adv_class = None
        /\ ~Called({"globals", "attack"})

\* C3 (as claimed): every entry of adv_res is the output of generate on its
\* chunk, conditioned on y_true when y_true is not None and unconditioned
\* (y = None) only when it is None.
C3_GenerateConditionedOnLabel ==
    (last_call.op = "transform" /\ last_call.result = "ok") =>
        \A k \in 1..Len(adv_res) :
            adv_res[k] = Generate(adv_class, GetChunk(data).chunks[k], y_true)[1]

\* C4 (as claimed): both checks precede the adapter, so a configuration with
\* an unsupported adv_method fails without an adapter instantiated or
\* load_model called.
C4_BothChecksBeforeAdapter ==
    /\ Called({"new", "load_model"}) =>
          /\ 0 < FirstCall("assert_adv_method")
          /\ FirstCall("assert_adv_method") < FirstCall("new")
    /\ (phase = "failed" /\ config.adv_method \notin SUPPORTED_ADV) =>
          (artmodel = None /\ ~Called({"new", "load_model"}))

\* C4 (amended): every name is checked before it is used, in the order of
\* the code: the model_name check precedes the adapter; the adv_method check
\* precedes the attack-class lookup but follows the instantiation of the
\* adapter and load_model, so a construction that fails on the adv_method
\* check has already built the adapter and loaded its weights, and has
\* created no attack object.
C4_ValidationBeforeUse ==
    /\ Called({"new", "load_model"}) =>
          /\ FirstCall("assert_model_name") = 1
          /\ config.model_name \in SUPPORTED_CM
    /\ Called({"globals", "attack"}) =>
          /\ 0 < FirstCall("assert_adv_method")
          /\ FirstCall("assert_adv_method") < FirstCall("globals")
          /\ config.adv_method \in SUPPORTED_ADV
    /\ Called({"assert_adv_method"}) =>
          /\ 0 < FirstCall("new")
          /\ FirstCall("new") < FirstCall("load_model")
          /\ FirstCall("load_model") < FirstCall("assert_adv_method")
    /\ (phase = "failed" /\ error = Raise("AssertionError", AdvMethodMsg)) =>
          /\ config.adv_method \notin SUPPORTED_ADV
          /\ artmodel # None
          /\ artmodel.weights = config.model_pretrained
          /\ adv_class = None

C4_Witness ==
    /\ phase = "failed"
    /\ error = Raise("AssertionError", AdvMethodMsg)
    /\ config.model_name \in SUPPORTED_CM
    /\ Called({"new"}) /\ Called({"load_model"})

\* C5: a successful transform collects exactly one attack output per chunk of
\* get_chunk, in chunk order, and the audio reassembled from them has the
\* sample count (and the sample rate, so the duration) of the loaded audio,
\* sample i of the output being the perturbed sample i of the input.
C5_TransformKeepsLength ==
    (last_call.op = "transform" /\ last_call.result = "ok") =>
        LET chunks == GetChunk(data).chunks
        IN  /\ Len(adv_res) = Len(chunks)
            /\ \A k \in 1..Len(adv_res) :
                  /\ Len(adv_res[k]) = ChunkSize
                  /\ \A i \in 1..ChunkSize : adv_res[k][i].src = chunks[k][1][i]
            /\ Len(augmented_audio.samples) = Len(data.samples)
            /\ \A i \in 1..Len(data.samples) :
                  augmented_audio.samples[i].src = data.samples[i]
            /\ augmented_audio.frame_rate = sr

C5_Witness ==
    /\ last_call.op = "transform" /\ last_call.result = "ok"
    /\ Len(data.samples) > ChunkSize
    /\ Len(data.samples) % ChunkSize # 0
    /\ Len(augmented_audio.samples) = Len(data.samples)

\* C7: every call of transform_load, whatever its arguments and whatever the
\* instance has done before, ends in NotImplementedError and leaves the
\* loaded data, the augmented output, the adapter and the attack object as
\* they were.
C7_TransformLoadAlwaysFails ==
    [][last_call'.op = "transform_load" =>
          /\ last_call'.result = "NotImplementedError"
          /\ UNCHANGED <<phase, config, y_true, error, events, artmodel,
                         adv_class, data, sr, augmented_audio, adv_res>>]_vars

C7_Witness ==
    /\ last_call.op = "transform_load"
    /\ last_call.args = <<"dev", 8>>
    /\ data # None
    /\ augmented_audio # None

\* C8 (as claimed): a configuration holding exactly the documented keys, with
\* a supported model_name and a supported adv_method, passes validation and
\* reaches adapter and attack instantiation; the only errors __init__ raises
\* over a configuration are the two assertion errors.
C8_DocumentedKeysSuffice ==
    /\ (phase # "new" /\ DOMAIN config = DocumentedKeys
        /\ config.model_name \in SUPPORTED_CM
        /\ config.adv_method \in SUPPORTED_ADV) =>
            (phase = "ready" /\ artmodel # None /\ adv_class # None)
    /\ phase = "failed" => error.type = "AssertionError"

\* The adapter class of each model family.
AdapterClass(name) ==
    CASE name = "rawnet2" -> "ArtRawnet2"
      [] name = "btse" -> "ArtBTSE"
      [] name = "aasistssl" -> "ArtAasistSSL"
      [] name = "lcnn" -> "ArtLCNN"

\* C9 (as claimed): for every supported model_name (and a supported
\* adv_method) __init__ instantiates exactly one adapter, of that family,
\* calls load_model on it once with model_pretrained, and only then
\* instantiates the attack, bound to that adapter's handle.
C9_OneAdapterThenAttack ==
    (phase # "new" /\ config.model_name \in SUPPORTED_CM
     /\ config.adv_method \in SUPPORTED_ADV) =>
        /\ events = << <<"assert_model_name">>,
                       <<"new", AdapterClass(config.model_name)>>,
                       <<"load_model", AdapterClass(config.model_name),
                         config.model_pretrained>>,
                       <<"assert_adv_method">>,
                       <<"globals", config.adv_method>>,
                       <<"attack", config.adv_method>> >>
        /\ artmodel # None /\ adv_class # None
        /\ adv_class.estimator = GetArt(artmodel)

-----------------------------------------------------------------------------
\* Claims about SpeedAugmentor (checked under SpecSpeed).

\* C6: the speed factor is drawn once, by __init__; whatever load and
\* transform calls follow, no further draw is made, the factor keeps its
\* value, lies within [min_speed_factor, max_speed_factor] when min <= max,
\* and is the factor of every augmented output.
C6_SpeedFactorSampledOnce ==
    /\ [](speed.phase = "ready" =>
            /\ rng.draws = 1
            /\ (speed.config.min_speed_factor <= speed.config.max_speed_factor =>
                  /\ speed.config.min_speed_factor <= speed.speed_factor
                  /\ speed.speed_factor <= speed.config.max_speed_factor)
            /\ (speed.augmented_audio # None =>
                  speed.augmented_audio.playback_speed = speed.speed_factor))
    /\ [][speed.phase = "ready" =>
            (speed'.speed_factor = speed.speed_factor /\ rng' = rng)]_vars

C6_Witness ==
    /\ speed.phase = "ready"
    /\ speed.config.min_speed_factor < speed.config.max_speed_factor
    /\ speed.speed_factor > speed.config.min_speed_factor
    /\ speed.augmented_audio # None
    /\ speed_call.op = "load"

\* C10: an augmented output exists only after a successful load; a transform
\* with no load before it fails on the unset audio_data and produces no
\* output; after a successful load, audio_data is the segment of the most
\* recently loaded audio and every transform succeeds, its output being the
\* speed-up of that segment.
C10_TransformFollowsLoad ==
    speed.phase = "ready" =>
        /\ (speed.audio_data = None) <=> (speed.data = None)
        /\ speed.data # None =>
              speed.audio_data = LibrosaToPydub(speed.data, speed.sr)
        /\ speed.augmented_audio # None => speed.audio_data # None
        /\ speed_call.op = "transform" =>
              IF speed.audio_data = None
              THEN /\ speed_call.result = "AttributeError"
                   /\ speed.augmented_audio = None
              ELSE /\ speed_call.result = "ok"
                   /\ speed.augmented_audio =
                         Speedup(LibrosaToPydub(speed.data, speed.sr),
                                 speed.speed_factor)

C10_Witness ==
    /\ speed_call.op = "transform"
    /\ speed_call.result = "ok"
    /\ speed.augmented_audio.speedup_of.samples = speed.data.samples
    /\ Len(speed.data.samples) > 1

====
